---- MODULE Spec2Model ----
(***************************************************************************)
(* Model of the duplicate / near-duplicate detection and merge engine of   *)
(* datablock-utils (source/operators/find_similar.py, source/properties.py)*)
(*                                                                         *)
(* Conventions                                                             *)
(*  - A fingerprint (NodeProperties.props) is a sequence whose first entry *)
(*    is the type tag (bl_idname, a string) and whose remaining entries    *)
(*    are integers: the mute flag (0 / 1) followed by the node's fields.   *)
(*  - A resource's contents (a value of content_map) is a sequence of      *)
(*    fingerprints, in node order.                                         *)
(*  - Scores are Python floats in the source.  They are modelled in fixed  *)
(*    point, in thousandths, rounded down: ScoreOne stands for 1.0.  With  *)
(*    the field totals the bounds allow, different quotients s2/s1 give    *)
(*    different fixed-point scores, and s2 = s1 gives exactly ScoreOne.    *)
(*  - An exception leaving an operator is recorded in the variable         *)
(*    `raised`; the operator's remaining statements do not run.            *)
(***************************************************************************)
EXTENDS Integers, Sequences, FiniteSets, TLC

VARIABLES
    \* ---- host + add-on state (specification Spec)
    bl_data,      \* ID_TYPES[id_type].collection: name -> contents, or Absent
    users,        \* external references: slot -> name referenced, or NoUser
    duplicates,   \* settings.duplicates: sequence of groups (tuples of names)
    scored,       \* settings.scored: sequence of [group, score]
    enabled,      \* settings.enabled
    raised,       \* exception that left the last operator call, or "none"
    lastOp,       \* history: the last operator / host step taken
    mergeRun,     \* history: what the last merge_duplicates call did
    hostSince,    \* history: host mutations since the last completed detection
    \* ---- merge executor input (specification SpecMerge)
    idGroups,     \* merge_ids's `duplicate_ids`: sequence of groups of ids
    \* ---- scorer inputs / outputs (specification SpecScore)
    contents,     \* find_similar's `contents`: sequence of [name, fps]
    threshold,    \* settings.similarity_threshold, in thousandths
    results,      \* what find_similar left: [raised, scores], or Pending
    \* ---- resolver inputs / outputs (specification SpecProcess)
    pairScores,   \* process's `results`: sequence of [k1, k2, score]
    grouping,     \* settings.grouping_threshold, in thousandths
    processed,    \* what process returned, or Pending
    \* ---- canonicalizer inputs / outputs (specification SpecCanon)
    ntrees,       \* the resources handed to contents_of_ntrees
    canonSettings,\* [exclude_unused, exclude_organization, is_ng]
    canonOut,     \* what the find-similar run over ntrees produced, or Pending
    \* ---- images / meshes collection (specification SpecAssets)
    assets        \* [kind, items]: per name [library, value], or NoAssets

hostVars  == <<bl_data, users, duplicates, scored, enabled, raised, lastOp,
               mergeRun, hostSince>>
scoreVars == <<contents, threshold, results>>
procVars  == <<pairScores, grouping, processed>>
canonVars == <<ntrees, canonSettings, canonOut>>
vars      == <<hostVars, idGroups, scoreVars, procVars, canonVars, assets>>

Pending == "pending"
Absent  == "absent"
NoUser  == "nouser"

\* 1.0 in the fixed-point representation of scores (thousandths).
ScoreOne == 1000

Min(a, b) == IF a <= b THEN a ELSE b
Max(a, b) == IF a >= b THEN a ELSE b

Range(s) == {s[i] : i \in 1..Len(s)}

RECURSIVE SumSeq(_)
SumSeq(s) == IF s = <<>> THEN 0 ELSE Head(s) + SumSeq(Tail(s))

\* floor(sqrt(n)) by bisection of lo..hi
RECURSIVE Bisect(_, _, _)
Bisect(n, lo, hi) ==
    IF lo >= hi THEN lo
    ELSE LET mid == (lo + hi + 1) \div 2
         IN  IF mid * mid <= n THEN Bisect(n, mid, hi) ELSE Bisect(n, lo, mid - 1)

\* n is ScoreOne^2 * s2 / s1; the search interval admits quotients s2 / s1
\* above 1 (up to 32^2), so a score above 1 is not cut to 1 by the bisection
ISqrt(n) == Bisect(n, 0, 32 * ScoreOne)

(***************************************************************************)
(* Canonicalizer: get_invalid_nodes, root links, NodeProperties,           *)
(* contents_of_ntrees                                                      *)
(*                                                                         *)
(* A node tree is [nodes, links, interface]:                               *)
(*   nodes     sequence (ntree.nodes) of [bl_idname, mute, inputs, outputs,*)
(*             out_value, props]; inputs is the sequence of input sockets  *)
(*             [kind, value, multi], outputs the number of output sockets, *)
(*             out_value the default value of outputs[0], props the values *)
(*             of the non-socket properties;                               *)
(*   links     sequence (ntree.links) of [from_node, from_socket, to_node, *)
(*             to_socket, is_valid]; nodes are named by their position in  *)
(*             `nodes`, from_socket is the index of the output socket,     *)
(*             to_socket the position of the input socket;                 *)
(*   interface the (kind, name) codes of the tree's interface sockets.     *)
(* A socket of kind "value" shows its default value, one of kind "hidden"  *)
(* has hide_value set or is of type SHADER / GEOMETRY (value: the code of  *)
(* its (bl_idname, name) pair), one of kind "none" has no default_value.   *)
(***************************************************************************)

NoError == "none"

IsOrganization(node) == node.bl_idname \in {"NodeReroute", "NodeFrame"}

\* nx.ancestors(G, n) together with n, G being the graph of (from_node,
\* to_node) over ntree.links
RECURSIVE AncestorsOf(_, _)
AncestorsOf(tree, S) ==
    LET more == {tree.links[i].from_node : i \in {j \in 1..Len(tree.links) :
                                                     tree.links[j].to_node \in S}}
    IN  IF more \subseteq S THEN S ELSE AncestorsOf(tree, S \cup more)

get_invalid_nodes(tree, st) ==
    LET all == 1..Len(tree.nodes)
        organization == {n \in all : IsOrganization(tree.nodes[n])}
        \* not n.outputs and G.pred[n]
        output_nodes == {n \in all :
                            /\ tree.nodes[n].outputs = 0
                            /\ \E i \in 1..Len(tree.links) : tree.links[i].to_node = n}
        used_nodes == AncestorsOf(tree, output_nodes)
        muted == {n \in all : tree.nodes[n].mute = 1}
    IN  (IF st.exclude_organization THEN organization ELSE {})
        \cup (IF st.exclude_unused THEN (all \ used_nodes) \cup muted ELSE {})

\* socket.links: the links into input socket k of node n
LinksTo(tree, n, k) ==
    SelectSeq(tree.links, LAMBDA l : l.to_node = n /\ l.to_socket = k)

\* links = {l.to_socket: l for l in ntree.links}: one link per socket, the
\* last one of ntree.links
LinkOf(tree, n, k) == LinksTo(tree, n, k)[Len(LinksTo(tree, n, k))]

is_linked(tree, n, k) == LinksTo(tree, n, k) # <<>>

get_unresolved_link(link, tree) == [raised |-> NoError, link |-> link]

\* get_precomputed_root_link(link, links): the resolved link, or the
\* KeyError of links[...] when the reroute's input has no link (only
\* IndexError is caught).
RECURSIVE get_precomputed_root_link(_, _)
get_precomputed_root_link(link, tree) ==
    IF tree.nodes[link.from_node].bl_idname # "NodeReroute"
    THEN [raised |-> NoError, link |-> link]
    ELSE IF ~is_linked(tree, link.from_node, 1)
    THEN [raised |-> "KeyError", link |-> link]
    ELSE LET prev_link == LinkOf(tree, link.from_node, 1)
         IN  IF prev_link.is_valid
             THEN get_precomputed_root_link(prev_link, tree)
             ELSE [raised |-> NoError, link |-> link]

\* get_root_link(link): inputs[0].links[0] raises IndexError when the
\* reroute's input has no link, and the link itself is returned.
RECURSIVE get_root_link(_, _)
get_root_link(link, tree) ==
    IF tree.nodes[link.from_node].bl_idname # "NodeReroute"
    THEN link
    ELSE IF ~is_linked(tree, link.from_node, 1)
    THEN link
    ELSE LET prev_link == LinksTo(tree, link.from_node, 1)[1]
         IN  IF prev_link.is_valid THEN get_root_link(prev_link, tree) ELSE link

\* What add_inputs appends for input socket k of node n, before Link
\* entries are built: a sequence of items [link, from_socket, from_node,
\* value]; an item with link = TRUE stands for self._add_link(...).
SocketItems(tree, n, k) ==
    LET socket == tree.nodes[n].inputs[k]
        LinkItem(l) == [link |-> TRUE, from_socket |-> l.from_socket,
                        from_node |-> l.from_node, value |-> 0]
        Unmuted(l) == tree.nodes[l.from_node].mute = 0
        literal ==
            IF socket.kind = "none" THEN <<>>
            ELSE << [link |-> FALSE, from_socket |-> 0, from_node |-> 0,
                     value |-> socket.value] >>
    IN  IF is_linked(tree, n, k) /\ socket.multi
        THEN LET roots == [i \in 1..Len(LinksTo(tree, n, k)) |->
                              get_root_link(LinksTo(tree, n, k)[i], tree)]
                 kept  == SelectSeq(roots, Unmuted)
             IN  [i \in 1..Len(kept) |-> LinkItem(kept[i])]
        ELSE IF is_linked(tree, n, k)
                /\ Unmuted(get_precomputed_root_link(LinkOf(tree, n, k), tree).link)
        THEN << LinkItem(get_precomputed_root_link(LinkOf(tree, n, k), tree).link) >>
        ELSE literal

RECURSIVE InputItems(_, _, _)
InputItems(tree, n, k) ==
    IF k > Len(tree.nodes[n].inputs) THEN <<>>
    ELSE SocketItems(tree, n, k) \o InputItems(tree, n, k + 1)

PureValueTypes == {"ShaderNodeValue", "ShaderNodeRGB", "ShaderNodeNormal"}

\* What follows the inputs: outputs[0].default_value of a pure value node,
\* then add_other_props
TailProps(node) ==
    (IF node.bl_idname \in PureValueTypes THEN <<node.out_value>> ELSE <<>>)
    \o node.props

\* Link.reduced_props: [p for p in linked_props if not isinstance(p, Link)]
ReducedProps(tree, n) ==
    LET items == SelectSeq(InputItems(tree, n, 1), LAMBDA it : ~it.link)
    IN  <<tree.nodes[n].mute>> \o [i \in 1..Len(items) |-> items[i].value]
        \o TailProps(tree.nodes[n])

\* Type tags as digits, for LinkCode
TypeOrder ==
    <<"ShaderNodeValue", "ShaderNodeMath", "NodeReroute", "NodeFrame",
      "ShaderNodeOutputMaterial", "GeometryNodeJoinGeometry", "TREE SOCKETS",
      "ShaderNodeSeparateXYZ">>
TypeDigit(t) == CHOOSE i \in 1..Len(TypeOrder) : TypeOrder[i] = t

RECURSIVE Digits(_, _)
Digits(s, acc) == IF s = <<>> THEN acc ELSE Digits(Tail(s), acc * 10 + Head(s))

\* A Link entry as one integer.  Link.__eq__ compares (from_socket_idx,
\* reduced_props), and a Link never equals a plain value: the code is the
\* decimal numeral "1", socket index, type digit, reduced props, which is
\* above every plain value (all values and digits of the model are below 10).
\* int(link.from_socket.path_from_id()[-2:-1]) is the last digit of the
\* output socket's index.
LinkCode(tree, from_socket, from_node) ==
    Digits(<<from_socket % 10, TypeDigit(tree.nodes[from_node].bl_idname)>>
           \o ReducedProps(tree, from_node), 1)

\* NodeProperties(n) after add_inputs and add_other_props
NodeProps(tree, n) ==
    LET items == InputItems(tree, n, 1)
    IN  <<tree.nodes[n].bl_idname, tree.nodes[n].mute>>
        \o [i \in 1..Len(items) |->
               IF items[i].link
               THEN LinkCode(tree, items[i].from_socket, items[i].from_node)
               ELSE items[i].value]
        \o TailProps(tree.nodes[n])

\* The exception that leaves the canonicalization of one tree: KeyError from
\* the root_links comprehension (a link out of a reroute whose input is not
\* linked), or KeyError from node_map[link.from_node.name] in _add_link (the
\* linked node is an invalid node).
TreeRaises(tree, st) ==
    LET invalid == get_invalid_nodes(tree, st)
        valid   == (1..Len(tree.nodes)) \ invalid
    IN  \/ \E i \in 1..Len(tree.links) :
              LET l == LinkOf(tree, tree.links[i].to_node, tree.links[i].to_socket)
              IN  get_precomputed_root_link(l, tree).raised # NoError
        \/ \E n \in valid : \E i \in 1..Len(InputItems(tree, n, 1)) :
              /\ InputItems(tree, n, 1)[i].link
              /\ InputItems(tree, n, 1)[i].from_node \in invalid

\* contents: the NodeProperties of the valid nodes in ntree.nodes order,
\* then, for a node group, NodeProperties(ntree, ['TREE SOCKETS'] + tree_sockets)
TreeContents(tree, st) ==
    LET invalid == get_invalid_nodes(tree, st)
        IsValid(n) == n \notin invalid
        valid   == SelectSeq([i \in 1..Len(tree.nodes) |-> i], IsValid)
    IN  [i \in 1..Len(valid) |-> NodeProps(tree, valid[i])]
        \o (IF st.is_ng THEN << <<"TREE SOCKETS">> \o tree.interface >> ELSE <<>>)

\* contents_of_ntrees(bl_data, key) with key naming node groups iff
\* st.is_ng: [raised, content_map]; content_map is in bl_data order and
\* skips library-linked resources and, if not node groups, resources that
\* do not use nodes.
RECURSIVE ContentsLoop(_, _, _)
ContentsLoop(data, st, acc) ==
    IF data = <<>> THEN [raised |-> NoError, content_map |-> acc]
    ELSE LET id_data == Head(data)
         IN  IF id_data.library \/ (~st.is_ng /\ ~id_data.use_nodes)
             THEN ContentsLoop(Tail(data), st, acc)
             ELSE IF TreeRaises(id_data.tree, st)
             THEN [raised |-> "KeyError", content_map |-> acc]
             ELSE ContentsLoop(Tail(data), st,
                    Append(acc, [name |-> id_data.name,
                                 fps  |-> TreeContents(id_data.tree, st)]))

contents_of_trees(data, st) == ContentsLoop(data, st, <<>>)

(***************************************************************************)
(* Similarity scorer: pair_nodes, cosine_similarity, find_similar          *)
(***************************************************************************)

DotWithTypeTag(props1, props2) ==
    Cardinality({k \in 1..Min(Len(props1), Len(props2)) : props1[k] = props2[k]})

\* zip_longest(props1.props[1:], props2.props[1:], fillvalue=_SENTINEL) and
\* sum([1 for a, b in zipped if a == b]): positions 2.. of the fingerprint;
\* a position present on one side only is paired with the sentinel and is
\* never equal.
Dot(props1, props2) ==
    Cardinality({k \in 2..Min(Len(props1), Len(props2)) : props1[k] = props2[k]})

\* diff_map[(props1.node, props2.node)] = (props1_len - dot, dot)
DiffMap(nodes1, nodes2) ==
    [key \in (1..Len(nodes1)) \X (1..Len(nodes2)) |->
        LET dot == Dot(nodes1[key[1]], nodes2[key[2]])
        IN  <<(Len(nodes1[key[1]]) - 1) - dot, dot>>]

KeyBeforeCostDescending(diff_map, k, m) ==
    \/ diff_map[k][1] > diff_map[m][1]
    \/ /\ diff_map[k][1] = diff_map[m][1]
       /\ \/ k[1] < m[1]
          \/ k[1] = m[1] /\ k[2] <= m[2]

\* sorted(diff_map, key=cost) is stable: equal costs keep the insertion
\* order of diff_map, which is nodes1-major.
KeyBefore(diff_map, k, m) ==
    \/ diff_map[k][1] < diff_map[m][1]
    \/ /\ diff_map[k][1] = diff_map[m][1]
       /\ \/ k[1] < m[1]
          \/ k[1] = m[1] /\ k[2] <= m[2]

\* GreedySum without the test on `seen`: every candidate pair is accepted
RECURSIVE GreedySumEveryPair(_, _, _)
GreedySumEveryPair(diff_map, rest, seen) ==
    IF rest = {} THEN 0
    ELSE LET key == CHOOSE k \in rest : TRUE
         IN  diff_map[key][2] + GreedySumEveryPair(diff_map, rest \ {key}, seen)

\* The loop over the sorted keys: `rest` are the keys not yet visited, `seen`
\* the nodes of accepted pairs (<<1, i>> a node of nodes1, <<2, j>> of nodes2).
RECURSIVE GreedySum(_, _, _)
GreedySum(diff_map, rest, seen) ==
    IF rest = {} THEN 0
    ELSE LET key == CHOOSE k \in rest : \A m \in rest : KeyBefore(diff_map, k, m)
             ends == {<<1, key[1]>>, <<2, key[2]>>}
         IN  IF seen \cap ends = {}
             THEN diff_map[key][2] + GreedySum(diff_map, rest \ {key}, seen \cup ends)
             ELSE GreedySum(diff_map, rest \ {key}, seen)

pair_nodes(nodes1, nodes2) ==
    LET diff_map == DiffMap(nodes1, nodes2)
    IN  GreedySum(diff_map, DOMAIN diff_map, {})

\* groupby(sorted(x, key=bl_idname), bl_idname): the fingerprints of one type
\* tag, in their order in x (sorted is stable).
Bucket(x, t) == LET HasType(p) == p[1] = t IN SelectSeq(x, HasType)

TypeTags(x) == {x[i][1] : i \in 1..Len(x)}

RECURSIVE SumPairs(_, _, _)
SumPairs(x, y, tags) ==
    IF tags = {} THEN 0
    ELSE LET t == CHOOSE t \in tags : TRUE
         IN  pair_nodes(Bucket(x, t), Bucket(y, t)) + SumPairs(x, y, tags \ {t})

\* s1 = sum([len(p1) - 1 for p1 in x])
FieldTotal(x) == SumSeq([i \in 1..Len(x) |-> Len(x[i]) - 1])

\* s2 = sum of pair_nodes over the type tags present in both
Agreement(x, y) == SumPairs(x, y, TypeTags(x) \cap TypeTags(y))

\* s2 / sqrt(s1 * s2), and 0 on ZeroDivisionError (s1 * s2 = 0).  In fixed
\* point: floor(ScoreOne * sqrt(s2 / s1)).
Quotient(s1, s2) ==
    IF s1 * s2 = 0 THEN 0 ELSE ISqrt((ScoreOne * ScoreOne * s2) \div s1)

cosine_similarity(x, y) == Quotient(FieldTotal(x), Agreement(x, y))

\* The fixed margin of the cheap rejection (0.1), in thousandths.
Margin == 100

\* The double loop of find_similar over contents.items(), flattened: `pos`
\* counts the (k1, k2) combinations in iteration order, `seen` holds the
\* unordered pairs already compared, `scores` is the `results` dict in
\* insertion order.  The division len(smallest) / len(largest) is outside any
\* try block: with two empty collections it raises ZeroDivisionError, which
\* leaves find_similar.
RECURSIVE FindLoop(_, _, _, _, _)
FindLoop(items, th, pos, seen, scores) ==
    IF pos > Len(items) * Len(items)
    THEN [raised |-> NoError, scores |-> scores]
    ELSE LET i  == ((pos - 1) \div Len(items)) + 1
             j  == ((pos - 1) % Len(items)) + 1
             k1 == items[i].name
             k2 == items[j].name
             x  == items[i].fps
             y  == items[j].fps
             \* smallest, largest = sorted((x, y), key=len): stable, so on
             \* equal lengths smallest is x and largest is y
             smallest == IF Len(y) < Len(x) THEN y ELSE x
             largest  == IF Len(y) < Len(x) THEN x ELSE y
             seen2    == seen \cup {{k1, k2}}
         IN  IF {k1, k2} \in seen \/ k1 = k2
             THEN FindLoop(items, th, pos + 1, seen, scores)
             ELSE IF Len(largest) = 0
             THEN [raised |-> "ZeroDivisionError", scores |-> scores]
             ELSE IF ScoreOne * Len(smallest) + Margin * Len(largest) < th * Len(largest)
             THEN FindLoop(items, th, pos + 1, seen2, scores)
             ELSE LET score == IF x # y THEN cosine_similarity(largest, smallest)
                                        ELSE ScoreOne
                  IN  IF score < th
                      THEN FindLoop(items, th, pos + 1, seen2, scores)
                      ELSE FindLoop(items, th, pos + 1, seen2,
                                    Append(scores, [k1 |-> k1, k2 |-> k2, score |-> score]))

\* find_similar(contents, results): `scores` are the entries it adds to
\* `results`, `raised` the exception that left it (NoError if none).
find_similar(items, th) == FindLoop(items, th, 1, {}, <<>>)

(***************************************************************************)
(* Duplicate / group resolver: process                                     *)
(***************************************************************************)

\* Resource names, in the order sorted() puts them.
NameOrder == <<"A", "B", "C", "D", "E">>
Rank(n) == CHOOSE i \in 1..Len(NameOrder) : NameOrder[i] = n

\* tuple(sorted(c))
RECURSIVE SortedTuple(_)
SortedTuple(S) ==
    IF S = {} THEN <<>>
    ELSE LET first == CHOOSE n \in S : \A m \in S : Rank(n) <= Rank(m)
         IN  <<first>> \o SortedTuple(S \ {first})

\* The keys of `graphs`: the distinct scores, in the order results first
\* holds them.
RECURSIVE ScoreKeys(_, _)
ScoreKeys(res, acc) ==
    IF res = <<>> THEN acc
    ELSE ScoreKeys(Tail(res),
                   IF Head(res).score \in Range(acc) THEN acc
                   ELSE Append(acc, Head(res).score))

\* graphs[score]: the pairs recorded with that score, as edges
ScoreEdges(res, score) ==
    {{res[i].k1, res[i].k2} : i \in {j \in 1..Len(res) : res[j].score = score}}

\* nx.find_cliques(G): the maximal cliques of the graph with these edges
\* (every node of G ends an edge, so every maximal clique has two or more
\* members).
find_cliques(edges) ==
    LET nodes == UNION edges
        IsClique(S) == \A p \in S, q \in S : p # q => {p, q} \in edges
    IN  {S \in SUBSET nodes :
            /\ Cardinality(S) >= 2
            /\ IsClique(S)
            /\ \A n \in nodes \ S : ~IsClique(S \cup {n})}

\* All enumerations of a finite set as a sequence.
Enumerations(S) ==
    {f \in [1..Cardinality(S) -> S] : \A i, j \in 1..Cardinality(S) : f[i] = f[j] => i = j}

\* The `cliques` dict as a sequence of [group, score] in insertion order:
\* score by score in the order of `graphs`, and within one score in the
\* order nx.find_cliques yields them, which networkx leaves unspecified
\* (any enumeration).
RECURSIVE CliqueSeqs(_, _)
CliqueSeqs(res, keys) ==
    IF keys = <<>> THEN {<<>>}
    ELSE LET score == Head(keys)
             here  == {[group |-> SortedTuple(c), score |-> score] :
                          c \in find_cliques(ScoreEdges(res, score))}
         IN  {e \o rest : e \in Enumerations(here), rest \in CliqueSeqs(res, Tail(keys))}

Cliques(res) == CliqueSeqs(res, ScoreKeys(res, <<>>))

\* round(settings.grouping_threshold, 2), the setting being in thousandths
Round2(g) ==
    LET low == (g \div 10) * 10
        r   == g % 10
    IN  IF r < 5 THEN low
        ELSE IF r > 5 THEN low + 10
        ELSE IF (g \div 10) % 2 = 0 THEN low ELSE low + 10

\* G.add_edges_from(product(group, group), score=score) for every clique with
\* 1 > score >= threshold.  `nodes` are G's nodes in insertion order, `weight`
\* maps an edge (a set of one or two nodes: product() pairs a member with
\* itself too) to its score attribute; a later clique overwrites it.
RECURSIVE AppendNew(_, _)
AppendNew(nodes, group) ==
    IF group = <<>> THEN nodes
    ELSE AppendNew(IF Head(group) \in Range(nodes) THEN nodes
                   ELSE Append(nodes, Head(group)), Tail(group))

RECURSIVE GroupingGraphBelow(_, _, _)
GroupingGraphBelow(cliques, thr, G) ==
    IF cliques = <<>> THEN G
    ELSE LET c == Head(cliques)
             members == Range(c.group)
             edges == {{a, b} : a \in members, b \in members}
         IN  IF ScoreOne > c.score /\ c.score <= thr
             THEN GroupingGraphBelow(Tail(cliques), thr,
                    [nodes  |-> AppendNew(G.nodes, c.group),
                     weight |-> [e \in DOMAIN G.weight \cup edges |->
                                    IF e \in edges THEN c.score ELSE G.weight[e]]])
             ELSE GroupingGraphBelow(Tail(cliques), thr, G)

RECURSIVE GroupingGraph(_, _, _)
GroupingGraph(cliques, thr, G) ==
    IF cliques = <<>> THEN G
    ELSE LET c == Head(cliques)
             members == Range(c.group)
             edges == {{a, b} : a \in members, b \in members}
         IN  IF ScoreOne > c.score /\ c.score >= thr
             THEN GroupingGraph(Tail(cliques), thr,
                    [nodes  |-> AppendNew(G.nodes, c.group),
                     weight |-> [e \in DOMAIN G.weight \cup edges |->
                                    IF e \in edges THEN c.score ELSE G.weight[e]]])
             ELSE GroupingGraph(Tail(cliques), thr, G)

EmptyGraph == [nodes |-> <<>>, weight |-> <<>>]

\* The connected component of node n
RECURSIVE Reach(_, _)
Reach(G, S) ==
    LET more == {m \in Range(G.nodes) : \E n \in S : {n, m} \in DOMAIN G.weight}
    IN  IF more \subseteq S THEN S ELSE Reach(G, S \cup more)

Component(G, n) == Reach(G, {n})

\* nx.connected_components(G): the components in the order of their first
\* node in G
RECURSIVE ComponentsFrom(_, _, _)
ComponentsFrom(G, i, done) ==
    IF i > Len(G.nodes) THEN <<>>
    ELSE IF G.nodes[i] \in done THEN ComponentsFrom(G, i + 1, done)
    ELSE LET c == Component(G, G.nodes[i])
         IN  <<c>> \o ComponentsFrom(G, i + 1, done \cup c)

connected_components(G) == ComponentsFrom(G, 1, {})

\* fmean([d for *_, d in H.edges.data('score')]) with H = G.subgraph(c),
\* rounded down to thousandths
RECURSIVE SumWeights(_, _)
SumWeights(weight, edges) ==
    IF edges = {} THEN 0
    ELSE LET e == CHOOSE e \in edges : TRUE
         IN  weight[e] + SumWeights(weight, edges \ {e})

MeanScore(G, c) ==
    LET edges == {e \in DOMAIN G.weight : e \subseteq c}
    IN  SumWeights(G.weight, edges) \div Cardinality(edges)

\* The loop over the components: every component with more than two members
\* assigns groups[tuple(G)], the key being the tuple of ALL nodes of G, so
\* `groups` ends with at most one entry, valued by the last such component.
RECURSIVE MergedGroups(_, _, _)
MergedGroups(G, comps, groups) ==
    IF comps = <<>> THEN groups
    ELSE MergedGroups(G, Tail(comps),
            IF Cardinality(Head(comps)) > 2
            THEN << [group |-> G.nodes, score |-> MeanScore(G, Head(comps))] >>
            ELSE groups)

\* sorted(raw_scored.items(), key=itemgetter(1), reverse=True): stable
RECURSIVE SortByScoreDesc(_)
SortByScoreDesc(s) ==
    IF s = <<>> THEN <<>>
    ELSE LET i == CHOOSE i \in 1..Len(s) :
                    /\ \A j \in 1..Len(s) : s[j].score <= s[i].score
                    /\ \A j \in 1..(i - 1) : s[j].score < s[i].score
         IN  <<s[i]>> \o SortByScoreDesc(SubSeq(s, 1, i - 1) \o SubSeq(s, i + 1, Len(s)))

processKeepAbsorbed(cliques, gth) ==
    LET G      == GroupingGraph(cliques, Round2(gth), EmptyGraph)
        groups == MergedGroups(G, connected_components(G), <<>>)
        Kept(c) == c.score < ScoreOne
        IsDup(c) == c.score >= ScoreOne
        dups   == SelectSeq(cliques, IsDup)
    IN  [duplicates |-> [i \in 1..Len(dups) |-> dups[i].group],
         scored     |-> SortByScoreDesc(SelectSeq(cliques, Kept) \o groups),
         cliques    |-> cliques,
         groups     |-> groups]

processClusterDuplicates(cliques, gth) ==
    LET G      == GroupingGraph(cliques, Round2(gth), EmptyGraph)
        groups == MergedGroups(G, connected_components(G), <<>>)
        seen   == UNION {Range(groups[i].group) : i \in 1..Len(groups)}
        Kept(c) == c.score < ScoreOne /\ seen \cap Range(c.group) = {}
        IsDup(c) == c.score >= ScoreOne /\ seen \cap Range(c.group) = {}
        dups   == SelectSeq(cliques, IsDup)
    IN  [duplicates |-> [i \in 1..Len(dups) |-> dups[i].group],
         scored     |-> SortByScoreDesc(SelectSeq(cliques, Kept) \o groups),
         cliques    |-> cliques,
         groups     |-> groups]

\* process(results) for one insertion order `cliques` of the cliques dict.
\* scored[i].score is floor(s * 1000) / 10 in the source, a percentage with
\* one decimal; it is kept in thousandths here.
process(cliques, gth) ==
    LET G      == GroupingGraph(cliques, Round2(gth), EmptyGraph)
        groups == MergedGroups(G, connected_components(G), <<>>)
        seen   == UNION {Range(groups[i].group) : i \in 1..Len(groups)}
        Kept(c) == c.score < ScoreOne /\ seen \cap Range(c.group) = {}
        IsDup(c) == c.score >= ScoreOne
        dups   == SelectSeq(cliques, IsDup)
    IN  [duplicates |-> [i \in 1..Len(dups) |-> dups[i].group],
         scored     |-> SortByScoreDesc(SelectSeq(cliques, Kept) \o groups),
         \* the locals `cliques` and `groups`, kept for inspection
         cliques    |-> cliques,
         groups     |-> groups]

\* process has not been called yet
NoProcessed == [duplicates |-> <<>>, scored |-> <<>>, cliques |-> <<>>,
                groups |-> << [group |-> <<>>, score |-> 0] >>]

(***************************************************************************)
(* Merge executor and the operators of the add-on                          *)
(***************************************************************************)

\* Names of the resources of the collection the operators work on
HostNames == {"A", "B", "C"}

\* A name of the collection that holds no resource
NoResource == [live |-> FALSE, fps |-> <<>>]

\* settings.similarity_threshold and settings.grouping_threshold at their
\* defaults (0.8, 0.82), thousandths
SimilarityThreshold == 800
GroupingThreshold == 820

LiveNames(bl) == {n \in DOMAIN bl : bl[n].live}

\* contents_of_ntrees(bl_data, key): the fingerprint collection of every
\* resource of the collection, in the collection's (name) order.  The
\* fingerprints themselves are the resource's `fps`.
contents_of_ntrees(bl) ==
    LET names == SortedTuple(LiveNames(bl))
    IN  [i \in 1..Len(names) |-> [name |-> names[i], fps |-> bl[names[i]].fps]]

\* DBU_OT_NodeTreesFindSimilar.execute on collection bl with the stored
\* results st = [duplicates, scored, enabled]: every outcome it can have
\* (one per insertion order of the cliques), as the stored results it leaves
\* and the exception that left it.  An exception of find_similar leaves
\* execute before the stored collections are touched.
FindSimilarExecute(bl, st) ==
    LET found == find_similar(contents_of_ntrees(bl), SimilarityThreshold)
    IN  IF found.raised # NoError
        THEN {[duplicates |-> st.duplicates, scored |-> st.scored,
               enabled |-> st.enabled, raised |-> found.raised]}
        ELSE {LET out == process(cliques, GroupingThreshold)
              IN  [duplicates |-> out.duplicates,
                   scored     |-> [i \in 1..Len(out.scored) |->
                                      [group |-> out.scored[i].group,
                                       score |-> out.scored[i].score]],
                   enabled    |-> IF out.duplicates = <<>> /\ out.scored = <<>>
                                  THEN FALSE ELSE st.enabled,
                   raised     |-> NoError]
              : cliques \in Cliques(found.scores)}

\* id_data.user_remap(target): every reference to id_data now refers to target
user_remap(us, id_data, target) ==
    [r \in DOMAIN us |-> IF us[r] = id_data THEN target ELSE us[r]]

\* bl_data.remove(id_data): the resource leaves the collection; whatever
\* still referred to it refers to nothing
remove(bl, id_data) == [bl EXCEPT ![id_data] = NoResource]
Unlinked(us, id_data) == [r \in DOMAIN us |-> IF us[r] = id_data THEN NoUser ELSE us[r]]

\* The state of merge_ids between two statements: the collection, the
\* references, `count`, the ids bl_data.remove() has freed in this run (their
\* Python wrappers are invalid: using one raises ReferenceError), and, for
\* inspection, the log of host calls and one entry per group entered.
MergeStart(bl, us) ==
    [bl |-> bl, users |-> us, count |-> 0, removed |-> {}, raised |-> NoError,
     log |-> <<>>, trace |-> <<>>]

\* MergeJunk with the remap reversed: target.user_remap(id_data)
RECURSIVE MergeJunkReversedRemap(_, _, _)
MergeJunkReversedRemap(m, target, junk) ==
    IF junk = <<>> \/ m.raised # NoError THEN m
    ELSE LET id_data == Head(junk)
         IN  IF id_data \in m.removed \/ target \in m.removed
             THEN [m EXCEPT !.raised = "ReferenceError"]
             ELSE MergeJunkReversedRemap(
                    [m EXCEPT
                       !.users   = Unlinked(user_remap(m.users, target, id_data), id_data),
                       !.bl      = remove(m.bl, id_data),
                       !.removed = m.removed \cup {id_data},
                       !.log     = m.log \o << [op |-> "user_remap", id |-> target, target |-> id_data],
                                               [op |-> "remove", id |-> id_data, target |-> target] >>],
                    target, Tail(junk))

\* for id_data in junk: id_data.user_remap(target); bl_data.remove(id_data)
RECURSIVE MergeJunk(_, _, _)
MergeJunk(m, target, junk) ==
    IF junk = <<>> \/ m.raised # NoError THEN m
    ELSE LET id_data == Head(junk)
         IN  IF id_data \in m.removed \/ target \in m.removed
             THEN [m EXCEPT !.raised = "ReferenceError"]
             ELSE MergeJunk(
                    [m EXCEPT
                       !.users   = Unlinked(user_remap(m.users, id_data, target), id_data),
                       !.bl      = remove(m.bl, id_data),
                       !.removed = m.removed \cup {id_data},
                       !.log     = m.log \o << [op |-> "user_remap", id |-> id_data, target |-> target],
                                               [op |-> "remove", id |-> id_data, target |-> target] >>],
                    target, Tail(junk))

\* for target, *junk in duplicate_ids: count += len(junk); ...
RECURSIVE MergeGroups(_, _)
MergeGroups(m, duplicate_ids) ==
    IF duplicate_ids = <<>> \/ m.raised # NoError THEN m
    ELSE LET group  == Head(duplicate_ids)
             target == Head(group)
             junk   == Tail(group)
             after  == MergeJunk([m EXCEPT !.count = m.count + Len(junk)], target, junk)
         IN  MergeGroups(
                [after EXCEPT !.trace = Append(m.trace,
                    [group |-> group, blBefore |-> m.bl, usersBefore |-> m.users,
                     freedBefore |-> m.removed,
                     blAfter |-> after.bl, usersAfter |-> after.users,
                     raised |-> after.raised])],
                Tail(duplicate_ids))

merge_ids(duplicate_ids, bl, us) == MergeGroups(MergeStart(bl, us), duplicate_ids)

\* No merge_duplicates call is on record
NoMerge ==
    [ran |-> FALSE, cached |-> <<>>, since |-> {}, keyError |-> FALSE,
     duplicate_ids |-> <<>>,
     blBefore |-> <<>>, usersBefore |-> <<>>, merge |-> MergeStart(<<>>, <<>>),
     count |-> 0, returned |-> FALSE]

\* [bl_data[i.name] for i in g.group] for g in duplicates_coll raises
\* KeyError when a cached name is not in the collection
Unresolved(bl, dups) ==
    \E i \in 1..Len(dups) : \E k \in 1..Len(dups[i]) : ~bl[dups[i][k]].live

\* The outcome of DBU_OT_NodeTreesMergeDuplicates.execute once duplicate_ids
\* is known: merge_ids, then the find-similar operator once more.
MergeFrom(bl, us, st, duplicate_ids, run) ==
    LET m == merge_ids(duplicate_ids, bl, us)
        run2 == [run EXCEPT !.duplicate_ids = duplicate_ids, !.merge = m,
                            !.blBefore = bl, !.usersBefore = us]
    IN  IF m.raised # NoError
        THEN {[bl |-> m.bl, users |-> m.users, st |-> st, raised |-> m.raised,
               detected |-> run.keyError, run |-> run2]}
        ELSE {[bl |-> m.bl, users |-> m.users, st |-> o, raised |-> o.raised,
               detected |-> run.keyError \/ o.raised = NoError,
               run |-> [run2 EXCEPT !.count = m.count,
                                    !.returned = (o.raised = NoError)]]
              : o \in FindSimilarExecute(m.bl, st)}

\* DBU_OT_NodeTreesMergeDuplicates.execute: every outcome.  The find-similar
\* operator runs before merge_ids only in the KeyError handler.
MergeDuplicatesExecute(bl, us, st, since) ==
    LET run == [NoMerge EXCEPT !.ran = TRUE, !.cached = st.duplicates,
                               !.since = since,
                               !.keyError = Unresolved(bl, st.duplicates)]
    IN  IF Unresolved(bl, st.duplicates)
        THEN UNION {IF o.raised # NoError
                    THEN {[bl |-> bl, users |-> us, st |-> o, raised |-> o.raised,
                           detected |-> FALSE,
                           run |-> [run EXCEPT !.blBefore = bl, !.usersBefore = us]]}
                    ELSE MergeFrom(bl, us, o, o.duplicates, run)
                    : o \in FindSimilarExecute(bl, st)}
        ELSE MergeFrom(bl, us, st, st.duplicates, run)

(***************************************************************************)
(* Specification SpecScore: find_similar applied to two resources "A" and  *)
(* "B" whose fingerprint collections are drawn from ScoreContents.         *)
(***************************************************************************)

\* Fingerprints the scorer is exercised on: bare nodes, one- and two-field
\* nodes, a proper prefix of another, a muted node, a second type tag.
Fingerprints ==
    { <<"T", 0>>, <<"T", 0, 1>>, <<"T", 0, 2>>, <<"U", 0, 1>>,
      \* NodeProperties(ntree, ['TREE SOCKETS']) of a node group without
      \* interface sockets: a fingerprint with no field
      <<"TREE SOCKETS">> }

\* Largest number of fingerprints of one collection in SpecScore.
MaxNodes == 2

RECURSIVE SeqsUpTo(_, _)
SeqsUpTo(S, n) ==
    IF n = 0 THEN {<<>>}
    ELSE LET shorter == SeqsUpTo(S, n - 1)
         IN  shorter \cup {Append(s, e) : s \in {t \in shorter : Len(t) = n - 1}, e \in S}

ScoreContents == SeqsUpTo(Fingerprints, MaxNodes)

\* settings.similarity_threshold (min 0.5, max 1, default 0.8), thousandths
Thresholds == {500, 800, 1000}

IdleHost ==
    /\ bl_data = <<>> /\ users = <<>> /\ duplicates = <<>> /\ scored = <<>>
    /\ enabled = FALSE /\ raised = NoError /\ lastOp = "init"
    /\ mergeRun = NoMerge /\ hostSince = {}
\* find_similar has not been called yet
NoResults == [raised |-> Pending, scores |-> <<>>]

IdleMerge == idGroups = <<>>
IdleScore == contents = <<>> /\ threshold \in {800} /\ results = NoResults
IdleProc  == pairScores = <<>> /\ grouping \in {820} /\ processed = NoProcessed
\* the canonicalizer has not run yet
NoSettings ==
    [exclude_unused |-> FALSE, exclude_organization |-> FALSE, is_ng |-> FALSE]
NoCanon ==
    [raised |-> Pending, content_map |-> <<>>, scores |-> <<>>,
     duplicates |-> <<>>, scored |-> <<>>]
IdleCanon == ntrees = <<>> /\ canonSettings = NoSettings /\ canonOut = NoCanon

\* No images or meshes collection is under consideration
NoAssets == [kind |-> "none", items |-> <<>>]
IdleAssets == assets = NoAssets

ScoreInit ==
    /\ \E x \in ScoreContents, y \in ScoreContents :
          contents = << [name |-> "A", fps |-> x], [name |-> "B", fps |-> y] >>
    /\ threshold \in Thresholds
    /\ results = NoResults
    /\ IdleHost /\ IdleMerge /\ IdleProc /\ IdleCanon /\ IdleAssets

\* One call find_similar(contents, results) with results = {}.
RunFindSimilar ==
    /\ results = NoResults
    /\ results' = find_similar(contents, threshold)
    /\ UNCHANGED <<contents, threshold, hostVars, idGroups, procVars, canonVars, assets>>

ScoreNext == RunFindSimilar

SpecScore == ScoreInit /\ [][ScoreNext]_vars

(***************************************************************************)
(* Specification SpecProcess: process applied to a results dict drawn from *)
(* the dicts find_similar can leave over the names of NameOrder.           *)
(***************************************************************************)

\* The keys find_similar can insert, in its insertion order: k1 is visited
\* before k2.
RECURSIVE PairsFrom(_, _)
PairsFrom(i, j) ==
    IF i >= Len(NameOrder) THEN <<>>
    ELSE IF j > Len(NameOrder) THEN PairsFrom(i + 1, i + 2)
    ELSE << <<NameOrder[i], NameOrder[j]>> >> \o PairsFrom(i, j + 1)

AllPairs == PairsFrom(1, 2)

\* Scores of recorded pairs, thousandths; every one is at or above the
\* smallest similarity threshold.
ProcScores == {850, 900, 1000}

\* settings.grouping_threshold (default 0.82), thousandths
GroupingThresholds == {820, 850, 900}

\* Largest number of recorded pairs in SpecProcess.
MaxPairs == 4

RECURSIVE ResultsOf(_, _, _)
ResultsOf(chosen, f, i) ==
    IF i > Len(AllPairs) THEN <<>>
    ELSE IF i \in chosen
         THEN << [k1 |-> AllPairs[i][1], k2 |-> AllPairs[i][2], score |-> f[i]] >>
              \o ResultsOf(chosen, f, i + 1)
         ELSE ResultsOf(chosen, f, i + 1)

ProcInit ==
    /\ \E chosen \in {S \in SUBSET (1..Len(AllPairs)) : Cardinality(S) <= MaxPairs} :
          \E f \in [chosen -> ProcScores] : pairScores = ResultsOf(chosen, f, 1)
    /\ grouping \in GroupingThresholds
    /\ processed = NoProcessed
    /\ IdleHost /\ IdleMerge /\ IdleScore /\ IdleCanon /\ IdleAssets

\* One call process(results)
RunProcess ==
    /\ processed = NoProcessed
    /\ \E cliques \in Cliques(pairScores) : processed' = process(cliques, grouping)
    /\ UNCHANGED <<pairScores, grouping, hostVars, idGroups, scoreVars, canonVars, assets>>

ProcNext == RunProcess

SpecProcess == ProcInit /\ [][ProcNext]_vars

(***************************************************************************)
(* Specification Spec: the add-on's operators on a collection the host     *)
(* keeps changing between operator calls.                                  *)
(***************************************************************************)

\* Fingerprint collections of the resources of the host collection: no
\* fingerprint (a material none of whose nodes is used), one node, and two
\* different nodes that extend it by one field.
HostContents ==
    { <<>>,
      << <<"T", 0, 1, 1>> >>,
      << <<"T", 0, 1, 1, 1>> >>,
      << <<"T", 0, 1, 1, 2>> >> }

\* Number of external references (users of the collection's resources)
NumRefs == 1

Stored == [duplicates |-> duplicates, scored |-> scored, enabled |-> enabled]

Init ==
    /\ bl_data \in [HostNames -> {NoResource} \cup
                        {[live |-> TRUE, fps |-> c] : c \in HostContents}]
    /\ users \in [1..NumRefs -> LiveNames(bl_data) \cup {NoUser}]
    /\ duplicates = <<>>
    /\ scored = <<>>
    /\ enabled = FALSE
    /\ raised = NoError
    /\ lastOp = "init"
    /\ mergeRun = NoMerge
    /\ hostSince = {}
    /\ IdleMerge /\ IdleScore /\ IdleProc /\ IdleCanon /\ IdleAssets

\* DBU_OT_NodeTreesFindSimilar.invoke: settings.enabled = True, then execute
FindSimilar ==
    /\ \E o \in FindSimilarExecute(bl_data, [Stored EXCEPT !.enabled = TRUE]) :
          /\ duplicates' = o.duplicates
          /\ scored' = o.scored
          /\ enabled' = o.enabled
          /\ raised' = o.raised
          /\ hostSince' = IF o.raised = NoError THEN {} ELSE hostSince
    /\ lastOp' = "find_similar"
    /\ mergeRun' = NoMerge
    /\ UNCHANGED <<bl_data, users, idGroups, scoreVars, procVars, canonVars, assets>>

\* DBU_OT_NodeTreesClearResults.execute
ClearResults ==
    /\ enabled' = FALSE
    /\ raised' = NoError
    /\ lastOp' = "clear_results"
    /\ mergeRun' = NoMerge
    /\ UNCHANGED <<bl_data, users, duplicates, scored, hostSince,
                   idGroups, scoreVars, procVars, canonVars, assets>>

\* DBU_OT_NodeTreesMergeDuplicates.execute
MergeDuplicates ==
    /\ \E o \in MergeDuplicatesExecute(bl_data, users, Stored, hostSince) :
          /\ bl_data' = o.bl
          /\ users' = o.users
          /\ duplicates' = o.st.duplicates
          /\ scored' = o.st.scored
          /\ enabled' = o.st.enabled
          /\ raised' = o.raised
          /\ mergeRun' = o.run
          \* a merge that raises half-way leaves a collection no detection
          \* has seen
          /\ hostSince' = IF o.raised = NoError THEN {}
                          ELSE IF o.detected THEN {"write"}
                          ELSE hostSince \cup {"write"}
    /\ lastOp' = "merge_duplicates"
    /\ UNCHANGED <<idGroups, scoreVars, procVars, canonVars, assets>>

\* The host deletes a resource
HostRemove(n) ==
    /\ bl_data[n].live
    /\ bl_data' = remove(bl_data, n)
    /\ users' = Unlinked(users, n)
    /\ hostSince' = hostSince \cup {"remove"}
    /\ lastOp' = "host"
    /\ raised' = NoError
    /\ mergeRun' = NoMerge
    /\ UNCHANGED <<duplicates, scored, enabled, idGroups, scoreVars, procVars, canonVars, assets>>

\* The host edits the graph of a resource, or creates a resource
HostWrite(n, c) ==
    /\ bl_data[n] # [live |-> TRUE, fps |-> c]
    /\ bl_data' = [bl_data EXCEPT ![n] = [live |-> TRUE, fps |-> c]]
    /\ hostSince' = hostSince \cup {"write"}
    /\ lastOp' = "host"
    /\ raised' = NoError
    /\ mergeRun' = NoMerge
    /\ UNCHANGED <<users, duplicates, scored, enabled, idGroups, scoreVars, procVars, canonVars, assets>>

Next ==
    \/ FindSimilar
    \/ ClearResults
    \/ MergeDuplicates
    \/ \E n \in HostNames : HostRemove(n)
    \/ \E n \in HostNames, c \in HostContents : HostWrite(n, c)

Spec == Init /\ [][Next]_vars

(***************************************************************************)
(* Specification SpecMerge: merge_ids applied to the lists of groups its   *)
(* callers can hand it, over a collection of resources with references.    *)
(***************************************************************************)

MergeNames == {"A", "B", "C", "D", "E"}

\* A group as the callers build it: two or more ids, in name order
MergeGroupsOf(names) == {SortedTuple(S) : S \in {T \in SUBSET names : Cardinality(T) >= 2}}

\* Largest number of groups of one merge_ids call in SpecMerge.
MaxGroups == 2

\* The callers hand over maximal cliques, connected components or classes
\* of equal file paths: no group holds all the members of another one.
MergeInputs ==
    {ids \in SeqsUpTo(MergeGroupsOf(MergeNames), MaxGroups) :
        \A i, j \in 1..Len(ids) : i # j => ~(Range(ids[i]) \subseteq Range(ids[j]))}

MergeInit ==
    /\ bl_data = [n \in MergeNames |-> [live |-> TRUE, fps |-> <<>>]]
    /\ users \in [1..NumRefs -> MergeNames \cup {NoUser}]
    /\ idGroups \in MergeInputs
    /\ duplicates = <<>> /\ scored = <<>> /\ enabled = FALSE
    /\ raised = NoError /\ lastOp = "init" /\ mergeRun = NoMerge /\ hostSince = {}
    /\ IdleScore /\ IdleProc /\ IdleCanon /\ IdleAssets

\* One call merge_ids(duplicate_ids, bl_data)
RunMergeIds ==
    /\ lastOp = "init"
    /\ LET m == merge_ids(idGroups, bl_data, users)
       IN  /\ bl_data' = m.bl
           /\ users' = m.users
           /\ raised' = m.raised
           /\ mergeRun' = [NoMerge EXCEPT !.ran = TRUE, !.duplicate_ids = idGroups,
                                          !.blBefore = bl_data, !.usersBefore = users,
                                          !.merge = m, !.count = m.count,
                                          !.returned = (m.raised = NoError)]
    /\ lastOp' = "merge_ids"
    /\ UNCHANGED <<duplicates, scored, enabled, hostSince, idGroups,
                   scoreVars, procVars, canonVars, assets>>

MergeNext == RunMergeIds

SpecMerge == MergeInit /\ [][MergeNext]_vars

(***************************************************************************)
(* Specification SpecCanon: one find-similar run over two resources that   *)
(* carry node trees: contents_of_ntrees, find_similar, process.            *)
(***************************************************************************)

ValueSocket(v)  == [kind |-> "value", value |-> v, multi |-> FALSE]
\* a SHADER socket: the entry is (socket.bl_idname, socket.name), here 7
ShaderSocket    == [kind |-> "hidden", value |-> 7, multi |-> FALSE]

ValueNode(v, m) ==
    [bl_idname |-> "ShaderNodeValue", mute |-> m, inputs |-> <<>>,
     outputs |-> 1, out_value |-> v, props |-> <<>>]
MathNode(v, op) ==
    [bl_idname |-> "ShaderNodeMath", mute |-> 0, inputs |-> <<ValueSocket(v)>>,
     outputs |-> 1, out_value |-> 0, props |-> <<op>>]
OutputNode ==
    [bl_idname |-> "ShaderNodeOutputMaterial", mute |-> 0,
     inputs |-> <<ShaderSocket>>, outputs |-> 0, out_value |-> 0, props |-> <<>>]
RerouteNode ==
    [bl_idname |-> "NodeReroute", mute |-> 0, inputs |-> <<ValueSocket(0)>>,
     outputs |-> 1, out_value |-> 0, props |-> <<>>]

NodeChoices ==
    {ValueNode(1, 0), ValueNode(2, 0), ValueNode(1, 1), MathNode(1, 3),
     OutputNode, RerouteNode}

MaxTreeNodes == 2

\* The links a node sequence admits: none, or one valid link from output 0
\* of the first node into input 1 of the second.
LinkChoices(nodes) ==
    {<<>>} \cup
    (IF Len(nodes) = 2 /\ nodes[1].outputs > 0 /\ nodes[2].inputs # <<>>
     THEN {<< [from_node |-> 1, from_socket |-> 0, to_node |-> 2,
               to_socket |-> 1, is_valid |-> TRUE] >>}
     ELSE {})

\* interface.items_tree sockets as (bl_socket_idname, name) codes
Interfaces == {<<>>, <<8>>}

Trees ==
    {[nodes |-> ns, links |-> ls, interface |-> it] :
        ns \in SeqsUpTo(NodeChoices, MaxTreeNodes) \ {<<>>}, ls \in {<<>>},
        it \in Interfaces}
    \cup
    {[nodes |-> ns, links |-> <<l>>, interface |-> <<>>] :
        ns \in {n \in SeqsUpTo(NodeChoices, MaxTreeNodes) : LinkChoices(n) # {<<>>}},
        l \in {[from_node |-> 1, from_socket |-> 0, to_node |-> 2,
                to_socket |-> 1, is_valid |-> TRUE]}}

CanonInit ==
    /\ \E x \in Trees, y \in Trees, lib \in BOOLEAN, un \in BOOLEAN :
          ntrees = << [name |-> "A", library |-> FALSE, use_nodes |-> TRUE,
                       tree |-> x],
                      [name |-> "B", library |-> lib, use_nodes |-> un,
                       tree |-> y] >>
    /\ canonSettings \in [exclude_unused : BOOLEAN, exclude_organization : BOOLEAN,
                          is_ng : BOOLEAN]
    /\ canonOut = NoCanon
    /\ IdleHost /\ IdleMerge /\ IdleScore /\ IdleProc /\ IdleAssets

\* DBU_OT_NodeTreesFindSimilar.execute over ntrees: the outcomes of the run
CanonRun(data, st) ==
    LET cm    == contents_of_trees(data, st)
        found == find_similar(cm.content_map, SimilarityThreshold)
    IN  IF cm.raised # NoError
        THEN {[NoCanon EXCEPT !.raised = cm.raised]}
        ELSE IF found.raised # NoError
        THEN {[NoCanon EXCEPT !.raised = found.raised,
                              !.content_map = cm.content_map]}
        ELSE {LET out == process(cliques, GroupingThreshold)
              IN  [raised |-> NoError, content_map |-> cm.content_map,
                   scores |-> found.scores, duplicates |-> out.duplicates,
                   scored |-> [i \in 1..Len(out.scored) |->
                                  [group |-> out.scored[i].group,
                                   score |-> out.scored[i].score]]]
              : cliques \in Cliques(found.scores)}

RunCanon ==
    /\ canonOut = NoCanon
    /\ canonOut' \in CanonRun(ntrees, canonSettings)
    /\ UNCHANGED <<ntrees, canonSettings, hostVars, idGroups, scoreVars, procVars, assets>>

CanonNext == RunCanon

SpecCanon == CanonInit /\ [][CanonNext]_vars

(***************************************************************************)
(* Specification SpecLinked: the same run as SpecCanon over two resources  *)
(* whose trees have links: chains source -> reroutes -> target, and a      *)
(* small graph with one more, muted, node.                                 *)
(***************************************************************************)

\* a GEOMETRY multi-input socket: the entry is (bl_idname, name), here 6
GeometrySocket == [kind |-> "hidden", value |-> 6, multi |-> TRUE]

JoinNode ==
    [bl_idname |-> "GeometryNodeJoinGeometry", mute |-> 0,
     inputs |-> <<GeometrySocket>>, outputs |-> 1, out_value |-> 0, props |-> <<>>]
SeparateNode ==
    [bl_idname |-> "ShaderNodeSeparateXYZ", mute |-> 0,
     inputs |-> <<ValueSocket(1)>>, outputs |-> 3, out_value |-> 0, props |-> <<>>]

NodeLinkOf(from, out, to) ==
    [from_node |-> from, from_socket |-> out, to_node |-> to, to_socket |-> 1,
     is_valid |-> TRUE]

\* Longest run of reroutes in a chain of SpecLinked.
MaxReroutes == 2

\* src -> k reroutes -> dst, the first link leaving output `out` of src
Chain(src, out, k, dst) ==
    [nodes     |-> <<src>> \o [i \in 1..k |-> RerouteNode] \o <<dst>>,
     links     |-> [i \in 1..(k + 1) |->
                       NodeLinkOf(i, IF i = 1 THEN out ELSE 0, i + 1)],
     interface |-> <<>>]

\* the first node of a chain; a RerouteNode here is a reroute whose input
\* is not linked
ChainSources == {ValueNode(1, 0), ValueNode(1, 1), SeparateNode, RerouteNode}
ChainTargets == {MathNode(1, 3), OutputNode, JoinNode}

ChainTrees ==
    UNION {{Chain(src, out, k, dst) :
               out \in 0..(src.outputs - 1), k \in 0..MaxReroutes, dst \in ChainTargets}
           : src \in ChainSources}

\* An unused value node, and a value node feeding the output node
UsedBase ==
    [nodes     |-> <<ValueNode(2, 0), ValueNode(1, 0), OutputNode>>,
     links     |-> <<NodeLinkOf(2, 0, 3)>>,
     interface |-> <<>>]
\* A math node, its input not linked, feeding the output node
MathBase ==
    [nodes     |-> <<MathNode(1, 3), OutputNode>>,
     links     |-> <<NodeLinkOf(1, 0, 2)>>,
     interface |-> <<>>]

Muted(node) == [node EXCEPT !.mute = 1]

\* base with one more node, muted, and the links `more` that touch it
WithMuted(base, node, more) ==
    [base EXCEPT !.nodes = Append(base.nodes, Muted(node)),
                 !.links = base.links \o more]

MutedTrees ==
    {UsedBase, MathBase}
    \cup {WithMuted(UsedBase, n, <<>>) : n \in {ValueNode(1, 0), MathNode(1, 3), OutputNode}}
    \cup {WithMuted(UsedBase, n, <<NodeLinkOf(from, 0, 4)>>) :
             n \in {MathNode(1, 3), OutputNode}, from \in {1, 2}}
    \cup {WithMuted(MathBase, ValueNode(1, 0), <<NodeLinkOf(3, 0, 1)>>),
          WithMuted(MathBase, ValueNode(1, 0), <<>>)}

LinkedTrees == ChainTrees \cup MutedTrees

LinkedInit ==
    /\ \E x \in LinkedTrees, y \in LinkedTrees, lib \in BOOLEAN, un \in BOOLEAN :
          ntrees = << [name |-> "A", library |-> FALSE, use_nodes |-> TRUE,
                       tree |-> x],
                      [name |-> "B", library |-> lib, use_nodes |-> un,
                       tree |-> y] >>
    /\ canonSettings \in [exclude_unused : BOOLEAN, exclude_organization : BOOLEAN,
                          is_ng : BOOLEAN]
    /\ canonOut = NoCanon
    /\ IdleHost /\ IdleMerge /\ IdleScore /\ IdleProc /\ IdleAssets

LinkedNext == RunCanon

SpecLinked == LinkedInit /\ [][LinkedNext]_vars

(***************************************************************************)
(* Specification SpecDetect: one detection pass, find_similar and then     *)
(* process, over a snapshot of NumDetect resources, for every setting of   *)
(* the two thresholds.                                                     *)
(***************************************************************************)

\* Number of resources of the snapshot in SpecDetect.
NumDetect == 3

DetectContents == HostContents

DetectInit ==
    /\ \E f \in [1..NumDetect -> DetectContents] :
          contents = [i \in 1..NumDetect |-> [name |-> NameOrder[i], fps |-> f[i]]]
    /\ threshold \in Thresholds
    /\ grouping \in GroupingThresholds
    /\ results = NoResults
    /\ pairScores = <<>>
    /\ processed = NoProcessed
    /\ IdleHost /\ IdleMerge /\ IdleCanon /\ IdleAssets

\* results = {}; find_similar(content_map, results); process(results)
RunDetect ==
    /\ results = NoResults
    /\ results' = find_similar(contents, threshold)
    /\ pairScores' = results'.scores
    /\ IF results'.raised # NoError
       THEN processed' = NoProcessed
       ELSE \E cliques \in Cliques(results'.scores) :
               processed' = process(cliques, grouping)
    /\ UNCHANGED <<contents, threshold, grouping, hostVars, idGroups, canonVars, assets>>

DetectNext == RunDetect

SpecDetect == DetectInit /\ [][DetectNext]_vars

(***************************************************************************)
(* Specification SpecAssets: the two leaf-asset merge operators, over a    *)
(* collection of images (compared by file path) or meshes (compared by    *)
(* geometry), some of them library-linked.                                 *)
(***************************************************************************)

\* Number of images / meshes of the collection in SpecAssets.
NumAssets == 3

AssetNames == {NameOrder[i] : i \in 1..NumAssets}

\* img.filepath, or what unit_test_compare compares: two values, in
\* sorting order
AssetValues == <<"p", "q">>

AssetsInit ==
    /\ \E kind \in {"images", "meshes"} :
       \E items \in [AssetNames -> [library : BOOLEAN, value : Range(AssetValues)]] :
          assets = [kind |-> kind, items |-> items]
    /\ bl_data = [n \in AssetNames |-> [live |-> TRUE, fps |-> <<>>]]
    /\ users \in [1..NumRefs -> AssetNames \cup {NoUser}]
    /\ duplicates = <<>> /\ scored = <<>> /\ enabled = FALSE
    /\ raised = NoError /\ lastOp = "init" /\ mergeRun = NoMerge /\ hostSince = {}
    /\ IdleMerge /\ IdleScore /\ IdleProc /\ IdleCanon

\* [tuple(g) for k, g in groupby(sorted(images, key=filepath), filepath)]
\* from file path number k on: the sort is stable, so a group lists its
\* images in the collection's (name) order
RECURSIVE groupby(_, _, _)
groupby(images, items, k) ==
    IF k > Len(AssetValues) THEN <<>>
    ELSE LET g == SortedTuple({n \in images : items[n].value = AssetValues[k]})
         IN  (IF g = <<>> THEN <<>> ELSE <<g>>) \o groupby(images, items, k + 1)

\* DBU_OT_ImagesMergeDuplicates.execute: duplicate_ids
ImagesDuplicateIds(bl, items) ==
    SelectSeq(groupby(LiveNames(bl), items, 1), LAMBDA g : Len(g) > 1)

\* The graph G of DBU_OT_MeshesMergeDuplicates.execute: for m1 in meshes,
\* for m2 in meshes, every unordered pair once; a 'Same' pair adds
\* product(group, group)
RECURSIVE MeshGraph(_, _, _, _)
MeshGraph(meshes, items, i, j) ==
    IF i > Len(meshes) THEN EmptyGraph
    ELSE IF j > Len(meshes) THEN MeshGraph(meshes, items, i + 1, i + 2)
    ELSE LET rest == MeshGraph(meshes, items, i, j + 1)
             pair == <<meshes[i], meshes[j]>>
         IN  IF items[meshes[i]].value = items[meshes[j]].value
             THEN [nodes  |-> AppendNew(pair, rest.nodes),
                   weight |-> [e \in DOMAIN rest.weight \cup
                                     {{a, b} : a \in Range(pair), b \in Range(pair)} |-> ScoreOne]]
             ELSE rest

\* DBU_OT_MeshesMergeDuplicates.execute: duplicate_ids
MeshesDuplicateIds(bl, items) ==
    LET meshes == SortedTuple({n \in LiveNames(bl) : ~items[n].library})
        comps  == connected_components(MeshGraph(meshes, items, 1, 2))
    IN  [i \in 1..Len(comps) |-> SortedTuple(comps[i])]

\* count = merge_ids(duplicate_ids, bl_data) and its record
AssetsMerge(duplicate_ids, op) ==
    LET m == merge_ids(duplicate_ids, bl_data, users)
    IN  /\ bl_data' = m.bl
        /\ users' = m.users
        /\ raised' = m.raised
        /\ mergeRun' = [NoMerge EXCEPT !.ran = TRUE, !.duplicate_ids = duplicate_ids,
                                       !.blBefore = bl_data, !.usersBefore = users,
                                       !.merge = m, !.count = m.count,
                                       !.returned = (m.raised = NoError)]
        /\ lastOp' = op
        /\ UNCHANGED <<duplicates, scored, enabled, hostSince, idGroups,
                       scoreVars, procVars, canonVars, assets>>

ImagesMergeDuplicates ==
    /\ lastOp = "init"
    /\ assets.kind = "images"
    /\ AssetsMerge(ImagesDuplicateIds(bl_data, assets.items), "images_merge_duplicates")

MeshesMergeDuplicates ==
    /\ lastOp = "init"
    /\ assets.kind = "meshes"
    /\ AssetsMerge(MeshesDuplicateIds(bl_data, assets.items), "meshes_merge_duplicates")

AssetsNext == ImagesMergeDuplicates \/ MeshesMergeDuplicates

SpecAssets == AssetsInit /\ [][AssetsNext]_vars

(***************************************************************************)
(* Properties                                                              *)
(***************************************************************************)

LiveCount(bl) == Cardinality(LiveNames(bl))

\* The groups of the last merge_ids call whose members were all in the
\* collection when merge_ids reached the group
LiveGroupEntries ==
    {i \in 1..Len(mergeRun.merge.trace) :
        \A n \in Range(mergeRun.merge.trace[i].group) :
            mergeRun.merge.trace[i].blBefore[n].live}

\* C1 (merge invariant): once merge_ids has processed a group of N live
\* members, exactly one member of the group, its first, is left in the
\* collection, the collection holds N-1 fewer resources, every reference
\* that pointed to a removed member points to the first member, and the
\* count merge_ids returns is the number of resources removed over all groups.
C1_MergeInvariant ==
    mergeRun.ran =>
        /\ bl_data = mergeRun.merge.bl
        /\ users = mergeRun.merge.users
        /\ \A i \in LiveGroupEntries :
              LET t == mergeRun.merge.trace[i]
              IN  /\ LiveNames(t.blAfter) \cap Range(t.group) = {Head(t.group)}
                  /\ LiveCount(t.blAfter) = LiveCount(t.blBefore) - (Len(t.group) - 1)
                  /\ \A r \in DOMAIN t.usersBefore :
                        t.usersBefore[r] \in Range(Tail(t.group))
                            => t.usersAfter[r] = Head(t.group)
        /\ mergeRun.returned =>
              mergeRun.count = LiveCount(mergeRun.blBefore) - LiveCount(bl_data)

\* C1 witness: a returned merge_ids call over two groups, one of them of
\* three members, with a reference that pointed to a removed member
C1_Witness ==
    /\ mergeRun.ran /\ mergeRun.returned
    /\ Len(mergeRun.merge.trace) = 2
    /\ mergeRun.count = 3
    /\ \E i \in LiveGroupEntries :
          /\ Len(mergeRun.merge.trace[i].group) = 3
          /\ \E r \in DOMAIN users :
                /\ mergeRun.usersBefore[r] \in Range(Tail(mergeRun.merge.trace[i].group))
                /\ users[r] = Head(mergeRun.merge.trace[i].group)

\* C2 (batch removal): in one merge run no bl_data.remove() call precedes a
\* user_remap() call.
C2_RemoveAfterAllRemaps ==
    \A i, j \in 1..Len(mergeRun.merge.log) :
        i < j => ~(/\ mergeRun.merge.log[i].op = "remove"
                   /\ mergeRun.merge.log[j].op = "user_remap")

\* C3 (stale member): merge_duplicates on cached groups one of whose names
\* was deleted since the detection run (nothing else was changed since)
\* raises nothing and merges the remaining members of such a group into the
\* group's first remaining member.
C3_StaleMemberSkipped ==
    (mergeRun.ran /\ mergeRun.keyError /\ mergeRun.since = {"remove"}) =>
        /\ raised = NoError
        /\ \A i \in 1..Len(mergeRun.cached) :
              LET was == SelectSeq(mergeRun.cached[i],
                                   LAMBDA n : mergeRun.blBefore[n].live)
              IN  (Len(was) < Len(mergeRun.cached[i]) /\ was # <<>>) =>
                     /\ LiveNames(bl_data) \cap Range(was) = {Head(was)}
                     /\ \A r \in DOMAIN users :
                           mergeRun.usersBefore[r] \in Range(was)
                               => users[r] = Head(was)

\* Two resources with the same, non-empty fingerprint collection
ExactDuplicates(bl, a, b) ==
    /\ a # b /\ bl[a].live /\ bl[b].live
    /\ bl[a].fps = bl[b].fps /\ bl[a].fps # <<>>

\* C4 (re-derive when missing): merge_duplicates called with no cached
\* duplicate group on a collection that holds exact duplicates detects and
\* merges them in that call: no two of them are both left.
C4_MissingResultsRederived ==
    (mergeRun.ran /\ mergeRun.cached = <<>>) =>
        \A a, b \in DOMAIN mergeRun.blBefore :
            ExactDuplicates(mergeRun.blBefore, a, b)
                => ~(bl_data[a].live /\ bl_data[b].live)

\* C5 (clear): after clear_results the stored duplicate groups and the
\* stored scored groups are empty.
C5_ClearEmptiesResults ==
    lastOp = "clear_results" => duplicates = <<>> /\ scored = <<>>

\* The score find_similar records for the one pair of `items` (0: none)
RecordedScore(found) ==
    IF found.scores = <<>> THEN 0 ELSE found.scores[1].score

\* C6 (symmetry): cosine_similarity gives the same score with its arguments
\* exchanged, find_similar records the same score for a pair whichever of
\* the two resources it visits first, and it stores the pair at most once.
C6_Symmetry ==
    results.raised = NoError =>
        LET x == contents[1].fps
            y == contents[2].fps
            other == find_similar(<<contents[2], contents[1]>>, threshold)
        IN  /\ cosine_similarity(x, y) = cosine_similarity(y, x)
            /\ RecordedScore(results) = RecordedScore(other)
            /\ Len(results.scores) <= 1

\* The same fingerprints, each as often, in any order
SameMultiset(x, y) ==
    /\ Len(x) = Len(y)
    /\ \A p \in Range(x) \cup Range(y) :
          Cardinality({i \in 1..Len(x) : x[i] = p})
              = Cardinality({i \in 1..Len(y) : y[i] = p})

\* C7 (identity fast path): two non-empty fingerprint collections that are
\* equal as multisets get score 1 exactly.
C7_IdentityFastPath ==
    (/\ results.raised # Pending
     /\ contents[1].fps # <<>>
     /\ SameMultiset(contents[1].fps, contents[2].fps)) =>
        /\ results.raised = NoError
        /\ RecordedScore(results) = ScoreOne

\* C8 (degenerate comparison): comparing two collections that are both
\* empty (combined field count zero) records no score and raises nothing.
C8_DegenerateNoError ==
    (/\ results.raised # Pending
     /\ FieldTotal(contents[1].fps) + FieldTotal(contents[2].fps) = 0) =>
        /\ results.raised = NoError
        /\ results.scores = <<>>

\* The connected components of more than two members of the grouping graph
\* process builds from its cliques
LargeComponents ==
    LET G == GroupingGraph(processed.cliques, Round2(grouping), EmptyGraph)
    IN  {c \in Range(connected_components(G)) : Cardinality(c) > 2}

\* C10 (merged clusters): the merged clusters of process are exactly the
\* connected components of more than two members of the grouping graph, one
\* cluster for each.
C10_ClusterIsComponent ==
    processed # NoProcessed =>
        /\ \A i \in 1..Len(processed.groups) :
              Range(processed.groups[i].group) \in LargeComponents
        /\ Len(processed.groups) = Cardinality(LargeComponents)


\* The run of SpecCanon compared two local resources that use nodes, whose
\* trees have the same nodes (types, mute flags and literal values), the
\* same interface and no links.
ScenarioA ==
    /\ canonOut # NoCanon
    /\ Len(ntrees) = 2
    /\ \A i \in 1..2 : ~ntrees[i].library /\ ntrees[i].use_nodes
                       /\ ntrees[i].tree.links = <<>>
    /\ ntrees[1].tree = ntrees[2].tree

\* C9: in Scenario A, for every setting of exclude_unused and
\* exclude_organization and for node groups as well as materials, the run
\* raises nothing, records score 1 for the pair and reports the two
\* resources together in the exact-duplicate set.
C9_ScenarioA ==
    ScenarioA =>
        /\ canonOut.raised = NoError
        /\ \E i \in 1..Len(canonOut.scores) :
              /\ {canonOut.scores[i].k1, canonOut.scores[i].k2} = {"A", "B"}
              /\ canonOut.scores[i].score = ScoreOne
        /\ \E i \in 1..Len(canonOut.duplicates) :
              {"A", "B"} \subseteq Range(canonOut.duplicates[i])


\* The grouping graph of the last process call
LastGroupingGraph == GroupingGraph(processed.cliques, Round2(grouping), EmptyGraph)

\* The mean weight of the edges that join two distinct members of
\* component c, rounded down to thousandths
PairMean(G, c) ==
    LET pairs == {e \in DOMAIN G.weight : e \subseteq c /\ Cardinality(e) = 2}
    IN  SumWeights(G.weight, pairs) \div Cardinality(pairs)

\* C11: the score of a merged cluster is the arithmetic mean of the weights
\* of the edges of its connected component, an edge joining two distinct
\* members of a candidate group and carrying that group's score.
C11_ClusterScoreIsPairMean ==
    processed # NoProcessed =>
        \A i \in 1..Len(processed.groups) :
            \E c \in LargeComponents :
                processed.groups[i].score = PairMean(LastGroupingGraph, c)

\* Three resources whose three pairwise scores are all 0.9, with
\* grouping_threshold 0.85, have been processed.
ScenarioD ==
    /\ processed # NoProcessed
    /\ grouping = 850
    /\ Len(pairScores) = 3
    /\ \A i \in 1..3 : pairScores[i].score = 900
    /\ Cardinality(UNION {{pairScores[i].k1, pairScores[i].k2} : i \in 1..3}) = 3

\* C12: in Scenario D process returns no exact-duplicate group and exactly
\* one scored group, which holds the three resources and has score 90.0
\* (900 thousandths).
C12_ScenarioD ==
    ScenarioD =>
        /\ processed.duplicates = <<>>
        /\ Len(processed.scored) = 1
        /\ Range(processed.scored[1].group) =
              UNION {{pairScores[i].k1, pairScores[i].k2} : i \in 1..3}
        /\ Len(processed.scored[1].group) = 3
        /\ processed.scored[1].score = 900

C12_Witness == ScenarioD /\ Len(processed.groups) = 1

\* C13: a candidate group with score below 1 is missing from the scored
\* groups only if all its members are in a merged cluster; every other one
\* is reported as it is.
C13_DroppedOnlyIfAbsorbed ==
    processed # NoProcessed =>
        \A i \in 1..Len(processed.cliques) :
            LET c == processed.cliques[i]
            IN  c.score < ScoreOne =>
                   \/ \E j \in 1..Len(processed.scored) :
                         processed.scored[j] = [group |-> c.group, score |-> c.score]
                   \/ \E j \in 1..Len(processed.groups) :
                         Range(c.group) \subseteq Range(processed.groups[j].group)

\* C14: the exact-duplicate groups process returns are the maximal cliques
\* of the graph of the pairs with score 1, each sorted by name and listed
\* once; no group with a score below 1 is among them.
C14_DuplicatesAreScoreOneCliques ==
    processed # NoProcessed =>
        /\ Range(processed.duplicates) =
              {SortedTuple(c) : c \in find_cliques(ScoreEdges(pairScores, ScoreOne))}
        /\ \A i, j \in 1..Len(processed.duplicates) :
              processed.duplicates[i] = processed.duplicates[j] => i = j

\* exact duplicates next to a merged cluster that shares a member with them
C14_Witness ==
    /\ processed # NoProcessed
    /\ processed.groups # <<>>
    /\ \E i \in 1..Len(processed.duplicates) :
          Range(processed.duplicates[i]) \cap Range(processed.groups[1].group) # {}


\* C15: every score cosine_similarity returns lies in [0, 1], every score
\* find_similar stores lies in (0, 1], and the greedy agreement total is at
\* most the field total of the first argument.
C15_ScoreRange ==
    results.raised # Pending =>
        LET x == contents[1].fps
            y == contents[2].fps
        IN  /\ \A a \in {x, y} : \A b \in {x, y} :
                  /\ Agreement(a, b) <= FieldTotal(a)
                  /\ cosine_similarity(a, b) \in 0..ScoreOne
            /\ \A i \in 1..Len(results.scores) :
                  results.scores[i].score \in 1..ScoreOne

\* a score strictly between 0 and 1 was stored for two collections of two
\* fingerprints each
C15_Witness ==
    /\ results.raised = NoError
    /\ Len(contents[1].fps) = 2 /\ Len(contents[2].fps) = 2
    /\ results.scores # <<>>
    /\ results.scores[1].score < ScoreOne


\* C16 (self-similarity) as stated: a non-empty fingerprint collection
\* scores exactly 1 against itself, in cosine_similarity as well as in
\* find_similar against an identical copy held by another resource.
C16_SelfSimilarity ==
    (results.raised # Pending /\ contents[1].fps # <<>>) =>
        /\ cosine_similarity(contents[1].fps, contents[1].fps) = ScoreOne
        /\ contents[1].fps = contents[2].fps =>
              results.raised = NoError /\ RecordedScore(results) = ScoreOne

\* C16 amended: find_similar records exactly 1 for a non-empty collection
\* against an identical copy, and cosine_similarity returns exactly 1 for a
\* collection against itself if the collection has at least one field.
C16_SelfSimilarityWithFields ==
    (results.raised # Pending /\ contents[1].fps # <<>>) =>
        /\ FieldTotal(contents[1].fps) > 0 =>
              cosine_similarity(contents[1].fps, contents[1].fps) = ScoreOne
        /\ contents[1].fps = contents[2].fps =>
              results.raised = NoError /\ RecordedScore(results) = ScoreOne

\* two identical collections of two different fingerprints, one a prefix of
\* the other, were compared
C16_Witness ==
    /\ results.raised # Pending
    /\ contents[1].fps = contents[2].fps
    /\ Len(contents[1].fps) = 2
    /\ contents[1].fps[1] # contents[1].fps[2]
    /\ FieldTotal(contents[1].fps) > 0


\* resource i of ntrees is not skipped by contents_of_ntrees
Included(i) ==
    ~ntrees[i].library /\ (canonSettings.is_ng \/ ntrees[i].use_nodes)

\* a link leaves a reroute whose input is not linked
DeadEnd(tree) ==
    \E i \in 1..Len(tree.links) :
        /\ tree.nodes[tree.links[i].from_node].bl_idname = "NodeReroute"
        /\ ~is_linked(tree, tree.links[i].from_node, 1)

\* C17: when a link's chain of reroutes ends in a reroute with no incoming
\* link, root-link resolution raises nothing and the fingerprints of the
\* tree are built without an exception, whatever the kind of the linked
\* socket and the setting of exclude_organization.
C17_DeadEndChainNoError ==
    (canonOut # NoCanon /\ DeadEnd(ntrees[1].tree)) =>
        /\ \A i \in 1..Len(ntrees[1].tree.links) :
              get_precomputed_root_link(ntrees[1].tree.links[i],
                                        ntrees[1].tree).raised = NoError
        /\ canonOut.raised # "KeyError"

\* ntrees holds src -> k reroutes -> dst and src -> dst, src not a reroute
ScenarioC(src, out, k, dst) ==
    /\ canonOut # NoCanon
    /\ Included(1) /\ Included(2)
    /\ ntrees[1].tree = Chain(src, out, k, dst)
    /\ ntrees[2].tree = Chain(src, out, 0, dst)

ExtraMuted(t1, t2) ==
    /\ Len(t2.nodes) = Len(t1.nodes) + 1
    /\ SubSeq(t2.nodes, 1, Len(t1.nodes)) = t1.nodes
    /\ t2.nodes[Len(t2.nodes)].mute = 1
    /\ t1.links = SelectSeq(t2.links, LAMBDA l : Len(t2.nodes) \notin {l.from_node, l.to_node})
    /\ t1.interface = t2.interface

ScenarioB ==
    /\ canonOut # NoCanon
    /\ canonSettings.exclude_unused
    /\ Included(1) /\ Included(2)
    /\ \/ ExtraMuted(ntrees[1].tree, ntrees[2].tree)
       \/ ExtraMuted(ntrees[2].tree, ntrees[1].tree)

\* C19: with exclude_unused on, two trees that differ only by one more
\* muted node, however it is linked, get score 1.
C19_ScenarioB ==
    ScenarioB =>
        /\ canonOut.raised = NoError
        /\ \E i \in 1..Len(canonOut.scores) : canonOut.scores[i].score = ScoreOne


\* C20: a user-invoked find-similar run raises no error; if it finds no
\* group, both stored collections are empty and enabled is False; if it
\* finds a group, enabled is True; and the stored collections hold exactly
\* the groups of that run over the collection.
C20_FindSimilarOutcome ==
    lastOp = "find_similar" =>
        /\ raised = NoError
        /\ enabled <=> (duplicates # <<>> \/ scored # <<>>)
        /\ \E o \in FindSimilarExecute(bl_data, Stored) :
              /\ o.raised = NoError
              /\ o.duplicates = duplicates
              /\ o.scored = scored


\* the members of the merged clusters process returns for the recorded
\* pairs at grouping threshold g, for any order of the cliques
ClustersAt(g) ==
    UNION {{Range(process(cl, g).groups[i].group) : i \in 1..Len(process(cl, g).groups)}
           : cl \in Cliques(results.scores)}

\* C21 (threshold monotonicity): on one snapshot the pairs find_similar
\* records at a higher similarity threshold are among those it records at a
\* lower one, and a merged cluster of process at a higher grouping
\* threshold is contained in a merged cluster at a lower one.
C21_ThresholdMonotone ==
    results.raised = NoError =>
        /\ \A th \in Thresholds :
              th >= threshold =>
                 /\ find_similar(contents, th).raised = NoError
                 /\ Range(find_similar(contents, th).scores) \subseteq Range(results.scores)
        /\ \A g \in GroupingThresholds :
              g >= grouping =>
                 \A c \in ClustersAt(g) : \E d \in ClustersAt(grouping) : c \subseteq d

\* a pair recorded at this similarity threshold and not at the highest one,
\* and a merged cluster at this grouping threshold and none at the highest
C21_Witness ==
    /\ results.raised = NoError
    /\ \E i \in 1..Len(results.scores) :
          results.scores[i] \notin Range(find_similar(contents, 1000).scores)
    /\ processed.groups # <<>>
    /\ ClustersAt(900) = {}


\* C22 (library-linked resources are left alone): a merge of images or of
\* meshes puts no library-linked resource in a group, as the survivor or as
\* a junk member, and removes none.
C22_LibraryUntouched ==
    mergeRun.ran /\ assets # NoAssets =>
        /\ \A i \in 1..Len(mergeRun.duplicate_ids) :
              \A k \in 1..Len(mergeRun.duplicate_ids[i]) :
                 ~assets.items[mergeRun.duplicate_ids[i][k]].library
        /\ \A n \in mergeRun.merge.removed : ~assets.items[n].library


\* C23 (groups are in name order): every group process returns, an
\* exact-duplicate group, an unmerged scored group or a merged cluster, lists
\* its members in ascending name order.
C23_GroupsInNameOrder ==
    processed # NoProcessed =>
        /\ \A i \in 1..Len(processed.duplicates) :
              processed.duplicates[i] = SortedTuple(Range(processed.duplicates[i]))
        /\ \A i \in 1..Len(processed.scored) :
              processed.scored[i].group = SortedTuple(Range(processed.scored[i].group))


\* (total field count of the smaller collection) / (total field count of
\* the larger collection) + 0.1 < th, cross-multiplied
FieldRatioBelow(x, y, th) ==
    LET small == Min(FieldTotal(x), FieldTotal(y))
        large == Max(FieldTotal(x), FieldTotal(y))
    IN  ScoreOne * small + Margin * large < th * large

\* C24 (cheap rejection): find_similar skips the scoring of a pair, and
\* records nothing for it, exactly when the ratio of the two collections'
\* total field counts plus 0.1 is below the similarity threshold; any other
\* pair is scored and recorded when its score reaches the threshold.
C24_CheapRejectionByFieldCount ==
    results.raised = NoError =>
        LET x == contents[1].fps
            y == contents[2].fps
            smallest == IF Len(y) < Len(x) THEN y ELSE x
            largest  == IF Len(y) < Len(x) THEN x ELSE y
            score == IF x # y THEN cosine_similarity(largest, smallest) ELSE ScoreOne
        IN  (results.scores = <<>>) <=>
                (FieldRatioBelow(x, y, threshold) \/ score < threshold)


\* A node's fingerprint: type tag, mute flag, then its fields
IsNodeFingerprint(p) == Len(p) >= 2 /\ p[1] # "TREE SOCKETS"

\* The position-aligned equal entries after the type tag and the mute flag
FieldAgreement(p, q) ==
    Cardinality({k \in 3..Min(Len(p), Len(q)) : p[k] = q[k]})

\* C25 (agreement and cost): for two node fingerprints the agreement count
\* is the number of position-aligned equal entries after the type tag and
\* the mute flag, the cost is the number of entries after them less the
\* agreement, and the field total of a collection counts neither the type
\* tag nor the mute flag.
C25_AgreementSkipsTypeAndMute ==
    results.raised # Pending =>
        LET x == contents[1].fps
            y == contents[2].fps
        IN  /\ \A i \in 1..Len(x), j \in 1..Len(y) :
                  (IsNodeFingerprint(x[i]) /\ IsNodeFingerprint(y[j])) =>
                      /\ DiffMap(x, y)[<<i, j>>][2] = FieldAgreement(x[i], y[j])
                      /\ DiffMap(x, y)[<<i, j>>][1]
                            = (Len(x[i]) - 2) - FieldAgreement(x[i], y[j])
            /\ (\A i \in 1..Len(x) : IsNodeFingerprint(x[i])) =>
                  FieldTotal(x) = SumSeq([i \in 1..Len(x) |-> Len(x[i]) - 2])


\* Candidate pair k is visited before candidate pair m: lower cost, or the
\* same cost and earlier in the first-collection-major enumeration
VisitedBefore(diff_map, k, m) ==
    \/ diff_map[k][1] < diff_map[m][1]
    \/ /\ diff_map[k][1] = diff_map[m][1]
       /\ (k[1] < m[1] \/ (k[1] = m[1] /\ k[2] < m[2]))

\* The candidate pairs in visiting order
VisitOrder(diff_map) ==
    [p \in 1..Cardinality(DOMAIN diff_map) |->
        CHOOSE k \in DOMAIN diff_map :
            Cardinality({m \in DOMAIN diff_map : VisitedBefore(diff_map, m, k)}) = p - 1]

\* The pairs accepted among the first p visited: a pair is accepted when
\* neither of its fingerprints is in a pair accepted before it
RECURSIVE AcceptedAmong(_, _)
AcceptedAmong(order, p) ==
    IF p = 0 THEN {}
    ELSE LET before == AcceptedAmong(order, p - 1)
         IN  IF \E a \in before : a[1] = order[p][1] \/ a[2] = order[p][2]
             THEN before
             ELSE before \cup {order[p]}

AcceptedPairs(diff_map) ==
    AcceptedAmong(VisitOrder(diff_map), Cardinality(DOMAIN diff_map))

\* The sum of the agreement counts of the accepted pairs
AcceptedAgreement(diff_map) ==
    LET order    == VisitOrder(diff_map)
        accepted == AcceptedAmong(order, Len(order))
    IN  SumSeq([p \in 1..Len(order) |->
                  IF order[p] \in accepted THEN diff_map[order[p]][2] ELSE 0])

IsGreedyPairing(nodes1, nodes2) ==
    LET diff_map == DiffMap(nodes1, nodes2)
    IN  /\ pair_nodes(nodes1, nodes2) = AcceptedAgreement(diff_map)
        /\ \A a, b \in AcceptedPairs(diff_map) :
              a # b => (a[1] # b[1] /\ a[2] # b[2])

\* C26 (greedy pairing): within one type bucket pair_nodes visits the
\* candidate pairs by ascending cost, equal costs in first-collection-major
\* order, accepts a pair only if neither fingerprint is in a pair accepted
\* earlier, so that no fingerprint is in two accepted pairs, and returns the
\* sum of the accepted pairs' agreement counts.
C26_GreedyPairing ==
    results.raised # Pending =>
        LET x == contents[1].fps
            y == contents[2].fps
        IN  \A t \in TypeTags(x) \cap TypeTags(y) :
               /\ IsGreedyPairing(Bucket(x, t), Bucket(y, t))
               /\ IsGreedyPairing(Bucket(y, t), Bucket(x, t))

\* a bucket of two fingerprints against two, where a candidate pair is
\* turned down although it costs no more than an accepted pair it shares a
\* fingerprint with, and agrees on a different number of entries
C26_Witness ==
    /\ results.raised = NoError
    /\ \E t \in TypeTags(contents[1].fps) \cap TypeTags(contents[2].fps) :
          LET diff_map == DiffMap(Bucket(contents[1].fps, t), Bucket(contents[2].fps, t))
              accepted == AcceptedPairs(diff_map)
          IN  /\ Cardinality(DOMAIN diff_map) = 4
              /\ Cardinality(accepted) = 2
              /\ \E k \in DOMAIN diff_map \ accepted : \E a \in accepted :
                    /\ (a[1] = k[1] \/ a[2] = k[2])
                    /\ diff_map[k][1] = diff_map[a][1]
                    /\ diff_map[k][2] # diff_map[a][2]


\* C27 (score 1 means equal): find_similar records the score 1 for a pair
\* only when the two fingerprint collections are equal, never for two
\* collections that differ, whichever of the two it visits first.
C27_ScoreOneOnlyForEqual ==
    (/\ results.raised = NoError
     /\ results.scores # <<>>
     /\ RecordedScore(results) >= ScoreOne) =>
        SameMultiset(contents[1].fps, contents[2].fps)


\* find_similar records the score 1 for resources a and b of collection bl,
\* or their fingerprint collections are equal
ScoresOne(bl, a, b) ==
    \/ ExactDuplicates(bl, a, b)
    \/ /\ bl[a].live /\ bl[b].live
       /\ LET names == SortedTuple({a, b})
              found == find_similar([i \in 1..2 |-> [name |-> names[i],
                                                     fps  |-> bl[names[i]].fps]],
                                    SimilarityThreshold)
          IN  found.raised = NoError /\ RecordedScore(found) >= ScoreOne

\* C28 (merge removes only current duplicates): every resource
\* merge_duplicates removes is, in the collection as it is when the merge
\* starts, an exact duplicate (score 1) of the survivor its references are
\* remapped to, also when the host edited resources, deleting none, since
\* the detection run.
C28_RemovedIsDuplicateOfSurvivor ==
    (mergeRun.ran /\ "remove" \notin mergeRun.since) =>
        \A k \in 1..Len(mergeRun.merge.log) :
            mergeRun.merge.log[k].op = "remove" =>
                ScoresOne(mergeRun.blBefore, mergeRun.merge.log[k].id,
                          mergeRun.merge.log[k].target)


\* C29 (duplicate groups are disjoint): no resource name is in two of the
\* exact-duplicate groups process returns.
C29_DuplicateGroupsDisjoint ==
    processed # NoProcessed =>
        \A i, j \in 1..Len(processed.duplicates) :
            i # j => Range(processed.duplicates[i]) \cap Range(processed.duplicates[j]) = {}

====
